---------------------------- MODULE Spec2Model ----------------------------
(***************************************************************************)
(* The image-quality assessor (python_service/face_quality.py) and the     *)
(* landmark embedding path (python_service/face_service.py).               *)
(*                                                                         *)
(* Numbers.  The code computes in binary floating point; the model         *)
(* computes the same expressions exactly, in fixed point:                  *)
(*   - pixel statistics (Laplacian variance, mean, standard deviation)     *)
(*     are integers counting thousandths;                                  *)
(*   - every value the code passes to round(x, 2) is kept as an exact      *)
(*     fraction [num, den] until it is rounded, and the rounded value is   *)
(*     an integer counting hundredths (50.0 is 5000);                      *)
(*   - round() is Python's: to the nearest, ties to the even neighbour.    *)
(***************************************************************************)
EXTENDS Integers, Sequences, FiniteSets, TLC

VARIABLES pc, request, sharpness, lighting, angle, mesh, all_faces, result

vars == <<pc, request, sharpness, lighting, angle, mesh, all_faces, result>>

(***************************************************************************)
(* Bounds of the model.                                                    *)
(***************************************************************************)
\* radius, in thousandths, of the neighbourhood sampled around each band edge
Near == 2
\* number of steps of the coarse sweeps over the pixel statistics
MaxSweep == 8
\* the face detector returns at most this many candidates
MaxFaces == 2
\* the eye detector returns at most this many eyes in a region
MaxEyes == 3
\* the face mesh returns at most this many faces
MaxMeshFaces == 2
\* number of sampled landmark sets whose points are spread over the frame
MaxShapes == 2
\* a landmark list handed to the confidence score alone has at most this
\* many points
MaxPoints == 2

(***************************************************************************)
(* Constants of face_quality.py.                                           *)
(***************************************************************************)
BlurryBelow == 100
SharpFrom == 500
IdealBrightness == 125
IdealContrast == 60
PoorBelow == 50
GoodFrom == 75
\* points of one face of the mesh
NumLandmarks == 468

Null == [null |-> TRUE]

Abs(x) == IF x < 0 THEN -x ELSE x
Min(a, b) == IF a < b THEN a ELSE b
Max(a, b) == IF a > b THEN a ELSE b

\* n/d to the nearest integer, ties to even (n >= 0, d > 0)
RoundHalfEven(n, d) ==
    LET q == n \div d
        r == n % d
    IN  IF 2 * r < d THEN q
        ELSE IF 2 * r > d THEN q + 1
        ELSE IF q % 2 = 0 THEN q ELSE q + 1

\* round(q, 2) of the fraction q, in hundredths (q.den is a multiple of 100)
Round2(q) == RoundHalfEven(q.num, q.den \div 100)

\* q < k and q >= k for a fraction q and an integer k
Below(q, k) == q.num < k * q.den

(***************************************************************************)
(* assess_sharpness.  v is laplacian_var in thousandths.                   *)
(***************************************************************************)
\* seeded fault: the cap min(..., 100) of the sharp band is forgotten
sharpness_score_uncapped(v) ==
    IF v < BlurryBelow * 1000
    THEN [num |-> v * 50, den |-> 100 * 1000]
    ELSE IF v < SharpFrom * 1000
    THEN [num |-> 50 * 400000 + (v - BlurryBelow * 1000) * 30, den |-> 400 * 1000]
    ELSE [num |-> 80 * 500000 + Min(v - SharpFrom * 1000, 1000000) * 20,
          den |-> 500 * 1000]

\* the local `score` before it is rounded
sharpness_score(v) ==
    IF v < BlurryBelow * 1000
    THEN [num |-> v * 50, den |-> 100 * 1000]
    ELSE IF v < SharpFrom * 1000
    THEN [num |-> 50 * 400000 + (v - BlurryBelow * 1000) * 30, den |-> 400 * 1000]
    ELSE \* min(80 + (v - 500) / 500 * 20, 100)
         [num |-> Min(80 * 500000 + Min(v - SharpFrom * 1000, 1000000) * 20,
                      100 * 500000),
          den |-> 500 * 1000]

\* seeded fault: the poor band takes its upper edge (<= instead of <)
sharpness_quality_inclusive(v) ==
    IF v <= BlurryBelow * 1000 THEN "poor"
    ELSE IF v < SharpFrom * 1000 THEN "acceptable"
    ELSE "good"

sharpness_quality(v) ==
    IF v < BlurryBelow * 1000 THEN "poor"
    ELSE IF v < SharpFrom * 1000 THEN "acceptable"
    ELSE "good"

assess_sharpness(v) ==
    [score     |-> Round2(sharpness_score(v)),
     quality   |-> sharpness_quality(v),
     raw_value |-> RoundHalfEven(v, 10)]

(***************************************************************************)
(* assess_lighting.  mean and std are in thousandths.                      *)
(***************************************************************************)
\* 100 - abs(mean - 125) / 125 * 100, clamped to [0, 100]; denominator 125000
brightness_score(mean) ==
    Max(0, Min(100 * IdealBrightness * 1000,
               100 * IdealBrightness * 1000 - Abs(mean - IdealBrightness * 1000) * 100))

\* 100 - abs(std - 60) / 60 * 100, clamped to [0, 100]; denominator 60000
contrast_score(std) ==
    Max(0, Min(100 * IdealContrast * 1000,
               100 * IdealContrast * 1000 - Abs(std - IdealContrast * 1000) * 100))

\* seeded fault: the weights 0.6 and 0.4 are exchanged
lighting_score_swapped(mean, std) ==
    [num |-> 48 * brightness_score(mean) + 150 * contrast_score(std),
     den |-> 15000000]

\* brightness_score * 0.6 + contrast_score * 0.4 over the common denominator
lighting_score(mean, std) ==
    [num |-> 72 * brightness_score(mean) + 100 * contrast_score(std),
     den |-> 15000000]

lighting_quality(q) ==
    IF Below(q, PoorBelow) THEN "poor"
    ELSE IF Below(q, GoodFrom) THEN "acceptable"
    ELSE "good"

assess_lighting(mean, std) ==
    [score      |-> Round2(lighting_score(mean, std)),
     quality    |-> lighting_quality(lighting_score(mean, std)),
     brightness |-> RoundHalfEven(mean, 10),
     contrast   |-> RoundHalfEven(std, 10)]

(***************************************************************************)
(* assess_face_angle.  faces is the face detector's answer, a sequence of  *)
(* candidates [w, h, eyes]: the box and the number of eyes the eye         *)
(* detector finds when it is run on that box.                              *)
(***************************************************************************)
Area(f) == f.w * f.h

\* seeded fault: the key is the width alone
WidestFace(faces) ==
    CHOOSE i \in 1..Len(faces) :
        /\ \A j \in 1..Len(faces) : faces[j].w <= faces[i].w
        /\ \A j \in 1..(i - 1) : faces[j].w < faces[i].w

\* max(faces, key=lambda f: f[2] * f[3]): the first candidate of largest area
LargestFace(faces) ==
    CHOOSE i \in 1..Len(faces) :
        /\ \A j \in 1..Len(faces) : Area(faces[j]) <= Area(faces[i])
        /\ \A j \in 1..(i - 1) : Area(faces[j]) < Area(faces[i])

\* eye_cascade.detectMultiScale(face_roi)
EyesIn(faces) == faces[LargestFace(faces)].eyes

\* seeded fault: an image without a face is scored like a profile
assess_face_angle_no_face_as_profile(faces) ==
    IF Len(faces) = 0
    THEN [score |-> 30 * 100, quality |-> "poor", angle_estimate |-> "no_face_detected"]
    ELSE LET eyes == EyesIn(faces)
         IN  IF eyes >= 2
             THEN [score |-> 100 * 100, quality |-> "good",
                   angle_estimate |-> "frontal", eyes_detected |-> eyes]
             ELSE IF eyes = 1
             THEN [score |-> 60 * 100, quality |-> "acceptable",
                   angle_estimate |-> "slight_angle", eyes_detected |-> eyes]
             ELSE [score |-> 30 * 100, quality |-> "poor",
                   angle_estimate |-> "profile", eyes_detected |-> eyes]

assess_face_angle(faces) ==
    IF Len(faces) = 0
    THEN [score |-> 0, quality |-> "poor", angle_estimate |-> "no_face_detected"]
    ELSE LET eyes == EyesIn(faces)
         IN  IF eyes >= 2
             THEN [score |-> 100 * 100, quality |-> "good",
                   angle_estimate |-> "frontal", eyes_detected |-> eyes]
             ELSE IF eyes = 1
             THEN [score |-> 60 * 100, quality |-> "acceptable",
                   angle_estimate |-> "slight_angle", eyes_detected |-> eyes]
             ELSE [score |-> 30 * 100, quality |-> "poor",
                   angle_estimate |-> "profile", eyes_detected |-> eyes]

(***************************************************************************)
(* assess_image_quality: the composite.                                    *)
(***************************************************************************)
\* seeded fault: the weights of sharpness and angle are exchanged
overall_score_swapped(s, l, a) ==
    [num |-> 30 * s.score + 35 * l.score + 35 * a.score, den |-> 100 * 100]

\* sharpness['score'] * 0.35 + lighting['score'] * 0.35 + angle['score'] * 0.30
overall_score(s, l, a) ==
    [num |-> 35 * s.score + 35 * l.score + 30 * a.score, den |-> 100 * 100]

RecommendPoor ==
    "Image quality is too low. Please ensure good lighting, hold camera steady, and face the camera directly."
RecommendAcceptable ==
    "Image quality is acceptable but could be improved. Consider better lighting or a more frontal angle."
RecommendGood == "Image quality is good for enrollment."

overall_quality(q) ==
    IF Below(q, PoorBelow) THEN "poor"
    ELSE IF Below(q, GoodFrom) THEN "acceptable"
    ELSE "good"

recommendation(q) ==
    IF Below(q, PoorBelow) THEN RecommendPoor
    ELSE IF Below(q, GoodFrom) THEN RecommendAcceptable
    ELSE RecommendGood

SuccessResult(s, l, a) ==
    [overall_score   |-> Round2(overall_score(s, l, a)),
     overall_quality |-> overall_quality(overall_score(s, l, a)),
     recommendation  |-> recommendation(overall_score(s, l, a)),
     sharpness       |-> s,
     lighting        |-> l,
     angle           |-> a]

\* seeded fault: the error record also carries a score
ErrorResultWithScore(msg) == [error |-> msg, overall_score |-> 0]

\* return {'error': ...}
ErrorResult(msg) == [error |-> msg]


(***************************************************************************)
(* face_service.py.  A mesh landmark is [x, y, z] in quarters of the frame *)
(* (x = 2 is the middle of the image); the frame sizes sampled are         *)
(* multiples of 4, so landmark.x * width is a whole number of pixels.      *)
(* Lengths, angles and features are integers counting hundredths; a        *)
(* square root is the integer square root of the hundredths.               *)
(***************************************************************************)
RECURSIVE SqrtBetween(_, _, _)
SqrtBetween(n, lo, hi) ==
    IF lo >= hi THEN lo
    ELSE LET mid == (lo + hi + 1) \div 2
         IN  IF mid * mid <= n THEN SqrtBetween(n, mid, hi)
             ELSE SqrtBetween(n, lo, mid - 1)

\* the largest r with r * r <= n
ISqrt(n) == SqrtBetween(n, 0, Min(n, 46340))

RECURSIVE SumBetween(_, _, _)
SumBetween(f, lo, hi) ==
    IF lo > hi THEN 0
    ELSE IF lo = hi THEN f[lo]
    ELSE LET mid == (lo + hi) \div 2
         IN  SumBetween(f, lo, mid) + SumBetween(f, mid + 1, hi)

\* f[1] + ... + f[n]
Sum(f, n) == SumBetween(f, 1, n)

SeqMax(f) == CHOOSE m \in {f[i] : i \in 1..Len(f)} : \A i \in 1..Len(f) : f[i] <= m
SeqMin(f) == CHOOSE m \in {f[i] : i \in 1..Len(f)} : \A i \in 1..Len(f) : m <= f[i]

\* np.std of a sequence of whole numbers, in hundredths
StdOf(f) ==
    LET n    == Len(f)
        mean == Sum([i \in 1..n |-> f[i] * 100], n) \div n
        dev  == [i \in 1..n |-> (f[i] * 100 - mean) * (f[i] * 100 - mean)]
    IN  ISqrt(Sum(dev, n) \div n)

\* [lm.x * width, lm.y * height, lm.z * width]
Pixel(lm, width, height) ==
    [x |-> (lm.x * width) \div 4, y |-> (lm.y * height) \div 4, z |-> (lm.z * width) \div 4]

\* landmarks_array / landmarks_3d
PixelLandmarks(landmarks, width, height) ==
    [i \in 1..Len(landmarks) |-> Pixel(landmarks[i], width, height)]

\* key_indices, the 0-based landmark indices of the mesh
key_indices ==
    <<33, 133, 160, 159, 158, 157, 173,
      263, 362, 387, 386, 385, 384, 398,
      1, 2, 98, 327,
      61, 291, 0, 17,
      10, 338, 297, 332, 284, 251, 389, 356, 454, 323, 361, 288,
      70, 63, 105, 66, 107, 336, 296, 334, 293, 300,
      205, 425, 206, 426>>

Dot(p, q) == p.x * q.x + p.y * q.y + p.z * q.z
Minus(p, q) == [x |-> p.x - q.x, y |-> p.y - q.y, z |-> p.z - q.z]

\* np.linalg.norm(p), in hundredths of a pixel
Norm(p) == ISqrt(Dot(p, p) * 10000)

RECURSIVE PairsFromTwo(_, _)
\* seeded fault: the band is two positions wide (min(i + 3, n))
PairsFromTwo(i, n) ==
    IF i >= n THEN <<>>
    ELSE [k \in 1..(Min(i + 3, n) - (i + 1)) |-> <<i, i + k>>] \o PairsFromTwo(i + 1, n)

RECURSIVE PairsFromFive(_, _)
\* seeded fault: the band is one position too wide (min(i + 6, n))
PairsFromFive(i, n) ==
    IF i >= n THEN <<>>
    ELSE [k \in 1..(Min(i + 6, n) - (i + 1)) |-> <<i, i + k>>] \o PairsFromFive(i + 1, n)

RECURSIVE PairsFrom(_, _)
\* for i in range(n): for j in range(i + 1, min(i + 5, n)), 0-based
PairsFrom(i, n) ==
    IF i >= n THEN <<>>
    ELSE [k \in 1..(Min(i + 5, n) - (i + 1)) |-> <<i, i + k>>] \o PairsFrom(i + 1, n)

\* arccos of a cosine given in hundredths, in hundredths of a radian: exact at
\* the knots 1, 0.87, 0.71, 0.5 and 0, linear between them, and
\* arccos(-c) = pi - arccos(c)
ArcCos(c) ==
    LET a == Abs(c)
        r == IF a >= 87 THEN ((100 - a) * 52) \div 13
             ELSE IF a >= 71 THEN 52 + ((87 - a) * 26) \div 16
             ELSE IF a >= 50 THEN 78 + ((71 - a) * 27) \div 21
             ELSE 105 + ((50 - a) * 52) \div 50
    IN  IF c >= 0 THEN r ELSE 314 - r

\* seeded fault: a degenerate pair of vectors is given the angle 0
AngleBetweenDegenerateZero(u, v) ==
    LET nn == Norm(u) * Norm(v)
    IN  IF nn = 0 THEN 0
        ELSE ArcCos(Max(-100, Min(100, (Dot(u, v) * 1000000) \div nn)))

\* np.arccos(np.dot(u, v) / (norm(u) * norm(v) + 1e-6)): the 1e-6 makes the
\* quotient 0 when a norm is 0; the quotient never leaves [-1, 1]
AngleBetween(u, v) ==
    LET nn == Norm(u) * Norm(v)
    IN  IF nn = 0 THEN ArcCos(0)
        ELSE ArcCos(Max(-100, Min(100, (Dot(u, v) * 1000000) \div nn)))

\* a / (b + 1e-6) for a, b >= 0 in hundredths, in hundredths
GuardedRatio(a, b) == IF b = 0 THEN a * 1000000 ELSE (a * 100) \div b

\* the features before normalisation: distances, angles, proportions
features_of(face_landmarks, width, height) ==
    LET landmarks_array == PixelLandmarks(face_landmarks, width, height)
        at(i)        == landmarks_array[i + 1]
        key_points   == [k \in 1..Len(key_indices) |-> at(key_indices[k])]
        pairs        == PairsFrom(0, Len(key_points))
        distances    == [k \in 1..Len(pairs) |->
                            Norm(Minus(key_points[pairs[k][1] + 1],
                                       key_points[pairs[k][2] + 1]))]
        left_eye     == at(33)
        right_eye    == at(263)
        nose_tip     == at(1)
        mouth_center == at(13)
        vec1         == Minus(right_eye, left_eye)
        vec2         == Minus(nose_tip, left_eye)
        vec3         == Minus(mouth_center, nose_tip)
        angle1       == AngleBetween(vec1, vec2)
        angle2       == AngleBetween(vec2, vec3)
        face_width   == Norm(Minus(at(234), at(454)))
        face_height  == Norm(Minus(at(10), at(152)))
        eye_distance == Norm(Minus(left_eye, right_eye))
    IN  distances \o <<angle1, angle2>>
        \o <<face_width, face_height, eye_distance,
             GuardedRatio(face_width, face_height)>>

\* (features_array - mean) / (std + 1e-6), in hundredths
Normalize(features) ==
    LET n    == Len(features)
        mean == Sum(features, n) \div n
        std  == ISqrt(Sum([i \in 1..n |-> (features[i] - mean) * (features[i] - mean)], n)
                        \div n)
    IN  IF n = 0 THEN features
        ELSE [i \in 1..n |-> GuardedRatio(Abs(features[i] - mean), std) *
                                 (IF features[i] < mean THEN -1 ELSE 1)]

\* seeded fault: the truncation is forgotten
PadOnly(a) ==
    IF Len(a) < 128
    THEN a \o [i \in 1..(128 - Len(a)) |-> 0]
    ELSE a

\* np.pad(a, (0, 128 - len(a))) if len(a) < 128 else a[:128]
PadOrTruncate(a) ==
    IF Len(a) < 128
    THEN a \o [i \in 1..(128 - Len(a)) |-> 0]
    ELSE SubSeq(a, 1, 128)

_generate_embedding_from_landmarks(face_landmarks, width, height) ==
    PadOrTruncate(Normalize(features_of(face_landmarks, width, height)))

\* size_score, in millionths
size_score(face_width, width) ==
    IF 3 * width <= 10 * face_width /\ 10 * face_width <= 7 * width THEN 400000
    ELSE IF \/ (2 * width <= 10 * face_width /\ 10 * face_width < 3 * width)
            \/ (7 * width < 10 * face_width /\ 10 * face_width <= 8 * width) THEN 300000
    ELSE IF \/ (15 * width <= 100 * face_width /\ 10 * face_width < 2 * width)
            \/ (8 * width < 10 * face_width /\ 10 * face_width <= 9 * width) THEN 200000
    ELSE 100000

\* seeded fault: the max(0.0, ...) is forgotten
center_score_unclamped(sum_x, sum_y, width, height) ==
    (300000 * width * height
        - 150000 * (Abs(sum_x - width) * height + Abs(sum_y - height) * width))
    \div (width * height)

\* max(0.0, 0.3 - (center_offset_x + center_offset_y) * 0.15), in millionths;
\* sum_x is max(xs) + min(xs), twice face_center_x
center_score(sum_x, sum_y, width, height) ==
    Max(0, (300000 * width * height
              - 150000 * (Abs(sum_x - width) * height + Abs(sum_y - height) * width))
           \div (width * height))

\* min(0.3, z_std / (face_width + 1e-6) * 0.5), in millionths; z_std in
\* hundredths of a pixel
distribution_score(z_std, face_width) ==
    IF face_width = 0
    THEN (IF z_std = 0 THEN 0 ELSE 300000)
    ELSE Min(300000, (z_std * 5000) \div face_width)

_calculate_landmark_confidence(landmarks_3d, width, height) ==
    IF Len(landmarks_3d) = 0 THEN 0
    ELSE LET xs == [i \in 1..Len(landmarks_3d) |-> landmarks_3d[i].x]
             ys == [i \in 1..Len(landmarks_3d) |-> landmarks_3d[i].y]
             z_values   == [i \in 1..Len(landmarks_3d) |-> landmarks_3d[i].z]
             face_width == SeqMax(xs) - SeqMin(xs)
             confidence ==
                 size_score(face_width, width)
                 + center_score(SeqMax(xs) + SeqMin(xs), SeqMax(ys) + SeqMin(ys),
                                width, height)
                 + distribution_score(StdOf(z_values), face_width)
         IN  Max(0, Min(1000000, confidence))

\* one entry of all_faces
FaceEntry(face_landmarks, width, height) ==
    LET landmarks_3d == PixelLandmarks(face_landmarks, width, height)
    IN  [landmarks      |-> landmarks_3d,
         embedding      |-> _generate_embedding_from_landmarks(face_landmarks, width, height),
         landmark_count |-> Len(landmarks_3d),
         confidence     |-> _calculate_landmark_confidence(landmarks_3d, width, height)]

(***************************************************************************)
(* The images.  A decoded image is known to the assessor through three     *)
(* statistics of its grayscale pixels: the variance of the Laplacian, the  *)
(* mean and the standard deviation.  The samples are the band edges of the *)
(* scoring functions with a neighbourhood of each, a coarse sweep of the   *)
(* range, and the extremes an 8-bit image allows.                          *)
(***************************************************************************)
\* the largest variance a 3x3 Laplacian of 8-bit pixels can have: 1020^2
LapVarMax == 1040400 * 1000

LapVars ==
    {v \in {e + d : e \in {0, BlurryBelow * 1000, SharpFrom * 1000, 1000 * 1000},
                    d \in (-Near)..Near} : v >= 0}
    \cup {k * 150000 : k \in 0..MaxSweep}
    \cup {LapVarMax}

\* 80354: a mean whose lighting score rounds to 78.57, which puts the
\* composite of a band-edge sharpness and a frontal face at 74.9995
Means ==
    {IdealBrightness * 1000 + d : d \in (-Near)..Near}
    \cup {m \in {k * 30000 : k \in 0..MaxSweep} : m <= 255000}
    \cup {80354, 255000}

Stds ==
    {IdealContrast * 1000 + d : d \in (-Near)..Near}
    \cup {s \in {k * 15000 : k \in 0..MaxSweep} : s <= 127500}

\* what 8-bit pixels allow: std^2 <= mean * (255 - mean), and the variance of
\* the Laplacian (a kernel of absolute sum 8, reflected borders) is at most
\* 128 * std^2; only a flat image has a Laplacian of variance 0
Feasible(v, mean, std) ==
    /\ v = 0 => std = 0
    /\ ((std + 99) \div 100) * ((std + 99) \div 100)
          <= (mean \div 100) * ((255000 - mean) \div 100)
    /\ (v + 999) \div 1000 <= 128 * (std \div 1000) * (std \div 1000)

Images ==
    {im \in [lapVar : LapVars, mean : Means, std : Stds] :
        Feasible(im.lapVar, im.mean, im.std)}

NoImage == [lapVar |-> 0, mean |-> 0, std |-> 0]

\* the face detector's answers, each candidate with the eye detector's answer
\* on its box
FaceLists ==
    UNION {[1..n -> [w : {1, 2}, h : {1, 2}, eyes : 0..MaxEyes]] : n \in 0..MaxFaces}

\* what assess_face_angle returns over the detectors' answers
AngleResults == {assess_face_angle(f) : f \in FaceLists}

\* the landmark sets the face mesh may return: every point at one place (all
\* zero, or the middle of the frame), or the points spread over the frame
Identical(c) == [i \in 1..NumLandmarks |-> [x |-> c, y |-> c, z |-> 0]]

Spread(k) ==
    [i \in 1..NumLandmarks |->
        [x |-> ((i - 1) * k) % 5,
         y |-> ((i - 1) \div 3 + k) % 5,
         z |-> ((i - 1 + k) % 3) - 1]]

LandmarkSets == {Identical(0), Identical(2)} \cup {Spread(k) : k \in 1..MaxShapes}

\* landmark sets handed to the functions on their own: every point at the
\* place p, off the middle of the frame and off the image plane
Coincident(p) == [i \in 1..NumLandmarks |-> p]

CoincidentSets == {Coincident(p) : p \in [x : {1, 3}, y : {2, 4}, z : {-1, 1}]}

\* what face_mesh.process may return in multi_face_landmarks
MeshResults == UNION {[1..n -> LandmarkSets] : n \in 0..MaxMeshFaces}

\* frame sizes of the images handed to the embedding path
Frames == [width : {4, 8}, height : {4, 8}]

(***************************************************************************)
(* assess_image_quality, one step per statement of its try block.  The     *)
(* payload is "valid" (an image decodes), "undecodable" (cv2.imdecode      *)
(* returns None) or "malformed" (base64.b64decode raises).  A call into    *)
(* cv2 may raise; the except clause turns that into the error record.      *)
(***************************************************************************)
AssessRequests ==
    {[op |-> "assess", payload |-> "valid", image |-> im] : im \in Images}
    \cup {[op |-> "assess", payload |-> p, image |-> NoImage] :
            p \in {"undecodable", "malformed"}}

Raise(msg) ==
    /\ result' = ErrorResult(msg)
    /\ pc' = "done"

Decode ==
    /\ pc = "decode"
    /\ CASE request.payload = "malformed" ->
               Raise("Incorrect padding")
         [] request.payload = "undecodable" ->
               /\ result' = ErrorResult("Failed to decode image")
               /\ pc' = "done"
         [] OTHER ->
               /\ pc' = (IF request.op = "assess" THEN "sharpness" ELSE "mesh")
               /\ UNCHANGED result
    /\ UNCHANGED <<request, sharpness, lighting, angle, mesh, all_faces>>

AssessSharpness ==
    /\ pc = "sharpness"
    /\ \E raises \in BOOLEAN :
          IF raises
          THEN /\ Raise("cv2.error")
               /\ UNCHANGED sharpness
          ELSE /\ sharpness' = assess_sharpness(request.image.lapVar)
               /\ pc' = "lighting"
               /\ UNCHANGED result
    /\ UNCHANGED <<request, lighting, angle, mesh, all_faces>>

AssessLighting ==
    /\ pc = "lighting"
    /\ \E raises \in BOOLEAN :
          IF raises
          THEN /\ Raise("cv2.error")
               /\ UNCHANGED lighting
          ELSE /\ lighting' = assess_lighting(request.image.mean, request.image.std)
               /\ pc' = "angle"
               /\ UNCHANGED result
    /\ UNCHANGED <<request, sharpness, angle, mesh, all_faces>>

AssessAngle ==
    /\ pc = "angle"
    /\ \E raises \in BOOLEAN :
          IF raises
          THEN /\ Raise("cv2.error")
               /\ UNCHANGED angle
          ELSE /\ \E a \in AngleResults : angle' = a
               /\ pc' = "compose"
               /\ UNCHANGED result
    /\ UNCHANGED <<request, sharpness, lighting, mesh, all_faces>>

Compose ==
    /\ pc = "compose"
    /\ result' = SuccessResult(sharpness, lighting, angle)
    /\ pc' = "done"
    /\ UNCHANGED <<request, sharpness, lighting, angle, mesh, all_faces>>

(***************************************************************************)
(* extract_landmarks_and_embedding: decode, the face mesh, one step per    *)
(* iteration of the loop over the faces, the return.                       *)
(***************************************************************************)
ExtractRequests ==
    {[op |-> "extract", payload |-> "valid", image |-> fr] : fr \in Frames}
    \cup {[op |-> "extract", payload |-> p, image |-> [width |-> 4, height |-> 4]] :
            p \in {"undecodable", "malformed"}}

MeshProcess ==
    /\ pc = "mesh"
    /\ \E raises \in BOOLEAN :
          IF raises
          THEN /\ Raise("mediapipe error")
               /\ UNCHANGED mesh
          ELSE \E faces \in MeshResults :
                  /\ mesh' = [multi_face_landmarks |-> faces]
                  /\ IF Len(faces) = 0
                     THEN /\ result' = ErrorResult("No face detected")
                          /\ pc' = "done"
                     ELSE /\ pc' = "faces"
                          /\ UNCHANGED result
    /\ UNCHANGED <<request, sharpness, lighting, angle, all_faces>>

\* seeded fault: every iteration works on the first face
FirstFace == mesh.multi_face_landmarks[1]

\* the face the next iteration of the loop works on
NextFace == mesh.multi_face_landmarks[Len(all_faces) + 1]

ExtractFace ==
    /\ pc = "faces"
    /\ Len(all_faces) < Len(mesh.multi_face_landmarks)
    /\ all_faces' = Append(all_faces,
                           FaceEntry(NextFace, request.image.width, request.image.height))
    /\ UNCHANGED <<pc, request, sharpness, lighting, angle, mesh, result>>

ReturnFaces ==
    /\ pc = "faces"
    /\ Len(all_faces) = Len(mesh.multi_face_landmarks)
    /\ result' = [faces |-> all_faces, count |-> Len(all_faces)]
    /\ pc' = "done"
    /\ UNCHANGED <<request, sharpness, lighting, angle, mesh, all_faces>>

Init ==
    /\ pc = "decode"
    /\ request \in AssessRequests \cup ExtractRequests
    /\ sharpness = Null
    /\ lighting = Null
    /\ angle = Null
    /\ mesh = Null
    /\ all_faces = <<>>
    /\ result = Null

Next ==
    \/ Decode
    \/ AssessSharpness
    \/ AssessLighting
    \/ AssessAngle
    \/ Compose
    \/ MeshProcess
    \/ ExtractFace
    \/ ReturnFaces

Spec == Init /\ [][Next]_vars

(***************************************************************************)
(* The functions on their own: a call of one function with arguments drawn *)
(* from the samples, and its return.                                       *)
(***************************************************************************)
\* points of a landmarks_3d list, in pixels of a frame 10 or 20 wide and 20 high
PointSamples == [x : {0, 3, 4, 6, 14, 18}, y : {0, 10}, z : {0, 4}]

PointLists == UNION {[1..n -> PointSamples] : n \in 0..MaxPoints}

UnitRequests ==
    {[op |-> "assess_face_angle", faces |-> f] : f \in FaceLists}
    \cup {[op |-> "_generate_embedding_from_landmarks",
           face_landmarks |-> lms, width |-> fr.width, height |-> fr.height] :
            lms \in LandmarkSets \cup CoincidentSets, fr \in Frames}
    \cup {[op |-> "_calculate_landmark_confidence",
           landmarks_3d |-> pts, width |-> w, height |-> h] :
            pts \in PointLists, w \in {10, 20}, h \in {20}}
    \cup {[op |-> "_calculate_landmark_confidence",
           landmarks_3d |-> PixelLandmarks(lms, fr.width, fr.height),
           width |-> fr.width, height |-> fr.height] :
            lms \in LandmarkSets \cup CoincidentSets, fr \in Frames}

Return(value) ==
    /\ result' = [ret |-> value]
    /\ pc' = "return"
    /\ UNCHANGED <<request, sharpness, lighting, angle, mesh, all_faces>>

CallAssessFaceAngle ==
    /\ pc = "call"
    /\ request.op = "assess_face_angle"
    /\ Return(assess_face_angle(request.faces))

CallGenerateEmbedding ==
    /\ pc = "call"
    /\ request.op = "_generate_embedding_from_landmarks"
    /\ Return(_generate_embedding_from_landmarks(request.face_landmarks,
                                                 request.width, request.height))

CallLandmarkConfidence ==
    /\ pc = "call"
    /\ request.op = "_calculate_landmark_confidence"
    /\ Return(_calculate_landmark_confidence(request.landmarks_3d,
                                             request.width, request.height))

UnitInit ==
    /\ pc = "call"
    /\ request \in UnitRequests
    /\ sharpness = Null
    /\ lighting = Null
    /\ angle = Null
    /\ mesh = Null
    /\ all_faces = <<>>
    /\ result = Null

UnitNext ==
    \/ CallAssessFaceAngle
    \/ CallGenerateEmbedding
    \/ CallLandmarkConfidence

UnitSpec == UnitInit /\ [][UnitNext]_vars

(***************************************************************************)
(* Claims about the quality assessor, checked under Spec.                  *)
(***************************************************************************)
IsError(r) == DOMAIN r = {"error"}

IsSuccess(r) ==
    DOMAIN r = {"overall_score", "overall_quality", "recommendation",
                "sharpness", "lighting", "angle"}

InScoreRange(x) == 0 <= x /\ x <= 100 * 100

\* C1: in every success result of assess_image_quality the sharpness, lighting
\* and angle scores and the overall score lie in [0, 100], whatever the pixel
\* statistics and whatever the detectors answered.
C1_ScoresInRange ==
    IsSuccess(result) =>
        /\ InScoreRange(result.sharpness.score)
        /\ InScoreRange(result.lighting.score)
        /\ InScoreRange(result.angle.score)
        /\ InScoreRange(result.overall_score)

\* an image above the saturation point of the sharpness score, with ideal
\* lighting and a frontal face: every score is at the top of its range
C1_Witness ==
    /\ IsSuccess(result)
    /\ request.image.lapVar > 1000 * 1000
    /\ result.sharpness.score = 100 * 100
    /\ result.overall_score = 100 * 100

\* C2: a finished call returns either the success record (exactly the six
\* keys) or the record whose only key is error; a payload that does not
\* decode, or a sub-assessment that raises, gives the error-only record, and
\* after a failed decode no sub-score was computed.
C2_ResultShape ==
    request.op = "assess" =>
    /\ pc # "done" => result = Null
    /\ pc = "done" => (IsError(result) \/ IsSuccess(result))
    /\ (pc = "done" /\ request.payload # "valid") =>
          /\ IsError(result)
          /\ sharpness = Null /\ lighting = Null /\ angle = Null
    /\ (pc = "done" /\ (sharpness = Null \/ lighting = Null \/ angle = Null)) =>
          IsError(result)
    /\ IsSuccess(result) =>
          /\ result.sharpness = sharpness /\ sharpness # Null
          /\ result.lighting = lighting /\ lighting # Null
          /\ result.angle = angle /\ angle # Null

\* the angle step raised after sharpness and lighting had been computed
C2_Witness ==
    /\ request.op = "assess"
    /\ pc = "done"
    /\ sharpness # Null /\ lighting # Null /\ angle = Null
    /\ IsError(result)

\* C3 as stated: the returned sharpness score is exactly v/100*50,
\* 50 + (v-100)/400*30 or min(80 + (v-500)/500*20, 100), by band.
C3_ExactScore ==
    sharpness # Null =>
        LET v == request.image.lapVar
            s == sharpness.score
        IN  IF v < 100000
            THEN s * 20 = v /\ sharpness.quality = "poor"
            ELSE IF v < 500000
            THEN (s - 5000) * 400 = (v - 100000) * 3
                 /\ sharpness.quality = "acceptable"
            ELSE s * 250 = Min(8000 * 250 + (v - 500000), 10000 * 250)
                 /\ sharpness.quality = "good"

\* C3, amended: the band is chosen by v (v < 100 poor, 100 <= v < 500
\* acceptable, v >= 500 good), and the returned score is the band's value
\* rounded to 2 decimals; v = 100 returns 50.0 / acceptable and v = 500
\* returns 80.0 / good.
C3_RoundedScore ==
    sharpness # Null =>
        LET v == request.image.lapVar
            s == sharpness.score
        IN  /\ IF v < 100000
               THEN s = RoundHalfEven(v, 20) /\ sharpness.quality = "poor"
               ELSE IF v < 500000
               THEN s = 5000 + RoundHalfEven((v - 100000) * 3, 400)
                    /\ sharpness.quality = "acceptable"
               ELSE s = Min(RoundHalfEven(8000 * 250 + (v - 500000), 250), 10000)
                    /\ sharpness.quality = "good"
            /\ v = 100000 => (s = 5000 /\ sharpness.quality = "acceptable")
            /\ v = 500000 => (s = 8000 /\ sharpness.quality = "good")

\* the variance is exactly 100: the first point of the acceptable band
C3_Witness ==
    /\ sharpness # Null
    /\ request.image.lapVar = 100000
    /\ sharpness.score = 5000
    /\ sharpness.quality = "acceptable"

\* brightness and contrast scores of the claim, over 125000 and 60000
C4_Brightness(mean) == Max(0, Min(12500000, 12500000 - Abs(mean - 125000) * 100))
C4_Contrast(std) == Max(0, Min(6000000, 6000000 - Abs(std - 60000) * 100))
\* 0.6 * brightness + 0.4 * contrast, over 15000000
C4_Score(mean, std) == 72 * C4_Brightness(mean) + 100 * C4_Contrast(std)

\* C4 as stated: the returned lighting score is 0.6*brightness + 0.4*contrast,
\* the quality is poor / acceptable / good as the returned score is < 50,
\* < 75 or more, mean 125 with std 60 returns 100 / good, and no other pair
\* returns 100.
C4_OnlyIdealScoresFull ==
    lighting # Null =>
        LET m == request.image.mean
            d == request.image.std
            s == lighting.score
        IN  /\ s * 150000 = C4_Score(m, d)
            /\ lighting.quality =
                  (IF s < 5000 THEN "poor" ELSE IF s < 7500 THEN "acceptable" ELSE "good")
            /\ (m = 125000 /\ d = 60000) => (s = 10000 /\ lighting.quality = "good")
            /\ s = 10000 => (m = 125000 /\ d = 60000)

\* C4, amended: the returned score is 0.6*brightness + 0.4*contrast rounded to
\* 2 decimals and the quality bands (< 50, < 75) apply to the value before
\* rounding; mean 125 with std 60 returns 100.0 / good and is the only pair
\* whose value before rounding is 100; every pair that returns 100.0 is good
\* and has a value of at least 99.995.
C4_RoundedLighting ==
    lighting # Null =>
        LET m == request.image.mean
            d == request.image.std
            s == lighting.score
            n == C4_Score(m, d)
        IN  /\ s = RoundHalfEven(n, 150000)
            /\ lighting.quality =
                  (IF n < 50 * 15000000 THEN "poor"
                   ELSE IF n < 75 * 15000000 THEN "acceptable" ELSE "good")
            /\ (m = 125000 /\ d = 60000) => (s = 10000 /\ lighting.quality = "good")
            /\ n = 100 * 15000000 <=> (m = 125000 /\ d = 60000)
            /\ s = 10000 => (lighting.quality = "good" /\ n >= 1499925000)

\* the ideal image: mean 125, standard deviation 60
C4_Witness ==
    /\ lighting # Null
    /\ request.image.mean = 125000
    /\ request.image.std = 60000
    /\ lighting.score = 10000
    /\ lighting.quality = "good"

\* C6: in every success result the overall score is
\* sharpness.score*0.35 + lighting.score*0.35 + angle.score*0.30 of the
\* sub-scores in that result, rounded to 2 decimals.
C6_WeightedSum ==
    IsSuccess(result) =>
        result.overall_score =
            RoundHalfEven(35 * result.sharpness.score + 35 * result.lighting.score
                             + 30 * result.angle.score, 100)

\* a result whose weighted sum has more than 2 decimals, so the rounding acts
C6_Witness ==
    /\ IsSuccess(result)
    /\ (35 * result.sharpness.score + 35 * result.lighting.score
           + 30 * result.angle.score) % 100 # 0
    /\ result.sharpness.score # result.angle.score

\* C7: in every success result the quality and the recommendation are those
\* of the band the returned overall score lies in: < 50 poor, < 75
\* acceptable, otherwise good.
C7_QualityMatchesScore ==
    IsSuccess(result) =>
        LET s == result.overall_score
        IN  /\ result.overall_quality =
                  (IF s < 5000 THEN "poor" ELSE IF s < 7500 THEN "acceptable" ELSE "good")
            /\ result.recommendation =
                  (IF s < 5000 THEN RecommendPoor
                   ELSE IF s < 7500 THEN RecommendAcceptable ELSE RecommendGood)


\* C14: when the angle sub-assessment reports no_face_detected the
\* overall_score is at most 70 and the overall_quality is not good, whatever
\* the sharpness and the lighting; when it reports frontal (score 100) the
\* overall_score is at least 30.
C14_AngleBoundsOverall ==
    (pc = "done" /\ IsSuccess(result)) =>
        /\ result.angle.angle_estimate = "no_face_detected" =>
              /\ result.overall_score <= 70 * 100
              /\ result.overall_quality # "good"
        /\ result.angle.angle_estimate = "frontal" =>
              /\ result.angle.score = 100 * 100
              /\ result.overall_score >= 30 * 100

\* no face in an image of full sharpness and ideal lighting: the bound 70 is
\* met, and the quality is acceptable
C14_Witness ==
    /\ pc = "done"
    /\ IsSuccess(result)
    /\ result.angle.angle_estimate = "no_face_detected"
    /\ result.sharpness.score = 100 * 100
    /\ result.lighting.score = 100 * 100
    /\ result.overall_score = 70 * 100
    /\ result.overall_quality = "acceptable"

(***************************************************************************)
(* Claims about the functions on their own, checked under UnitSpec.        *)
(***************************************************************************)
Returned(op) == pc = "return" /\ request.op = op

\* the (score, quality, angle_estimate) of a number of eyes, as C5 gives it
C5_Triple(eyes) ==
    IF eyes >= 2 THEN <<10000, "good", "frontal">>
    ELSE IF eyes = 1 THEN <<6000, "acceptable", "slight_angle">>
    ELSE <<3000, "poor", "profile">>

\* C5: assess_face_angle returns 0 / poor / no_face_detected when the face
\* detector returns nothing; otherwise the eyes are those found in the first
\* candidate of largest width * height, and the result is 100 / good / frontal
\* for 2 or more eyes, 60 / acceptable / slight_angle for 1, 30 / poor /
\* profile for none.
C5_AngleFromLargestFace ==
    Returned("assess_face_angle") =>
        LET faces == request.faces
            r     == result.ret
        IN  IF Len(faces) = 0
            THEN r = [score |-> 0, quality |-> "poor",
                      angle_estimate |-> "no_face_detected"]
            ELSE \E i \in 1..Len(faces) :
                    /\ \A j \in 1..Len(faces) :
                          faces[j].w * faces[j].h <= faces[i].w * faces[i].h
                    /\ \A j \in 1..(i - 1) :
                          faces[j].w * faces[j].h < faces[i].w * faces[i].h
                    /\ r.eyes_detected = faces[i].eyes
                    /\ <<r.score, r.quality, r.angle_estimate>> = C5_Triple(faces[i].eyes)

\* two candidates, the second of the larger area, one eye in the first and
\* two in the second: the result is frontal
C5_Witness ==
    /\ Returned("assess_face_angle")
    /\ Len(request.faces) = 2
    /\ request.faces[1].w * request.faces[1].h < request.faces[2].w * request.faces[2].h
    /\ request.faces[1].eyes = 1
    /\ request.faces[2].eyes = 2
    /\ result.ret.angle_estimate = "frontal"

\* C8: for a landmark set of 468 points and any frame size the embedding has
\* exactly 128 entries.
C8_EmbeddingLength ==
    Returned("_generate_embedding_from_landmarks") =>
        /\ Len(request.face_landmarks) = 468
        /\ Len(result.ret) = 128

\* a landmark set whose points are spread: more than 128 features are
\* assembled and 128 values are returned
C8_Witness ==
    /\ Returned("_generate_embedding_from_landmarks")
    /\ request.face_landmarks = Spread(1)
    /\ Len(features_of(request.face_landmarks, request.width, request.height)) > 128
    /\ Len(result.ret) = 128

\* C9: the confidence of any landmark list lies in [0, 1]; it is 0 for the
\* empty list and otherwise the sum, clamped to [0, 1], of a size factor of at
\* most 0.4, a centering factor in [0, 0.3] and a depth-spread factor in
\* [0, 0.3].
C9_ConfidenceInUnitRange ==
    Returned("_calculate_landmark_confidence") =>
        LET pts == request.landmarks_3d
            n   == Len(pts)
            xs  == [i \in 1..n |-> pts[i].x]
            ys  == [i \in 1..n |-> pts[i].y]
            zs  == [i \in 1..n |-> pts[i].z]
            fw  == SeqMax(xs) - SeqMin(xs)
            size   == size_score(fw, request.width)
            center == center_score(SeqMax(xs) + SeqMin(xs), SeqMax(ys) + SeqMin(ys),
                                   request.width, request.height)
            spread == distribution_score(StdOf(zs), fw)
        IN  /\ 0 <= result.ret /\ result.ret <= 1000000
            /\ n = 0 => result.ret = 0
            /\ n > 0 =>
                  /\ 0 < size /\ size <= 400000
                  /\ 0 <= center /\ center <= 300000
                  /\ 0 <= spread /\ spread <= 300000
                  /\ result.ret = Max(0, Min(1000000, size + center + spread))

\* the degenerate landmark set: 468 points, all of them zero
C9_Witness ==
    /\ Returned("_calculate_landmark_confidence")
    /\ Len(request.landmarks_3d) = 468
    /\ \A i \in 1..468 : request.landmarks_3d[i] = [x |-> 0, y |-> 0, z |-> 0]
    /\ result.ret = 100000

\* the pairs <<i, j>> of 0-based positions of a subset of n points with j one
\* of the four positions after i
C11_Band(n) ==
    {p \in (0..(n - 1)) \X (0..(n - 1)) : p[1] < p[2] /\ p[2] <= p[1] + 4}

\* the place of the pair p among the pairs of band, in order of i then j
C11_Rank(p, band) ==
    1 + Cardinality({q \in band : q[1] < p[1] \/ (q[1] = p[1] /\ q[2] < p[2])})

\* the subset has `count` distinct indices, and the features start with the
\* distances of the band, in order of i then j, followed by the two angles and
\* the four proportions
C11_Banded(count) ==
    LET pts      == PixelLandmarks(request.face_landmarks, request.width, request.height)
        features == features_of(request.face_landmarks, request.width, request.height)
        n        == Len(key_indices)
        band     == C11_Band(n)
    IN  /\ n = count
        /\ Cardinality({key_indices[k] : k \in 1..n}) = count
        /\ Len(features) = Cardinality(band) + 6
        /\ \A p \in band :
              features[C11_Rank(p, band)] =
                  Norm(Minus(pts[key_indices[p[1] + 1] + 1],
                             pts[key_indices[p[2] + 1] + 1]))

\* C11 as stated: the synthesizer selects exactly 44 landmark indices and, for
\* each position i of the subset, emits the distance to exactly the positions
\* j = i+1 .. i+4 that exist, in order of i then j.
C11_FortyFourBanded ==
    Returned("_generate_embedding_from_landmarks") => C11_Banded(44)

\* C11 amended: the synthesizer selects exactly 48 distinct landmark indices
\* and, for each position i of the subset, emits the distance to exactly the
\* positions j = i+1 .. i+4 that exist, in order of i then j.
C11_FortyEightBanded ==
    Returned("_generate_embedding_from_landmarks") => C11_Banded(48)

\* a spread landmark set: the distances of the first position to its four
\* successors are not all equal, so their order shows
C11_Witness ==
    /\ Returned("_generate_embedding_from_landmarks")
    /\ request.face_landmarks = Spread(2)
    /\ LET features == features_of(request.face_landmarks, request.width, request.height)
       IN  /\ Len(features) = 188
           /\ Cardinality({features[k] : k \in 1..4}) > 1
           /\ features[5] =
                 Norm(Minus(Pixel(request.face_landmarks[133 + 1], request.width, request.height),
                            Pixel(request.face_landmarks[160 + 1], request.width, request.height)))

\* every point of the list pts is the same point
C12_AllSame(pts) == \A i \in 1..Len(pts) : pts[i] = pts[1]

\* the features of a set of identical points: the distances and the four
\* proportions are 0 and both angles are `rad` (hundredths of a radian)
C12_Features(rad) ==
    LET features == features_of(request.face_landmarks, request.width, request.height)
        n        == Len(features)
    IN  /\ \A k \in 1..(n - 6) : features[k] = 0
        /\ features[n - 5] = rad /\ features[n - 4] = rad
        /\ \A k \in (n - 3)..n : features[k] = 0

\* the confidence of a list of identical points: the z standard deviation
\* and the depth-spread factor are 0 and the confidence is
\* size_score + center_score, the size ratio being 0 and the centre of the
\* bounding box the point itself
C12_Confidence ==
    LET pts == request.landmarks_3d
        zs  == [i \in 1..Len(pts) |-> pts[i].z]
    IN  /\ StdOf(zs) = 0
        /\ distribution_score(StdOf(zs), 0) = 0
        /\ result.ret = size_score(0, request.width)
                          + center_score(2 * pts[1].x, 2 * pts[1].y,
                                         request.width, request.height)

C12_Case(op) ==
    /\ Returned(op)
    /\ IF op = "_calculate_landmark_confidence"
       THEN Len(request.landmarks_3d) = 468 /\ C12_AllSame(request.landmarks_3d)
       ELSE Len(request.face_landmarks) = 468 /\ C12_AllSame(request.face_landmarks)

\* C12 as stated: for a landmark set whose 468 points are identical, every
\* pairwise distance, both feature angles and every proportion feature is 0,
\* the z standard deviation and the depth-spread factor are 0, and the
\* confidence equals size_score + center_score.
C12_DegenerateAllZero ==
    /\ C12_Case("_generate_embedding_from_landmarks") => C12_Features(0)
    /\ C12_Case("_calculate_landmark_confidence") => C12_Confidence

\* C12 amended: for a landmark set whose 468 points are identical, every
\* pairwise distance and every proportion feature is 0 and both feature
\* angles are arccos(0) = pi/2 (1.57 rad), the z standard deviation and the
\* depth-spread factor are 0, and the confidence equals
\* size_score + center_score.
C12_DegenerateRightAngles ==
    /\ C12_Case("_generate_embedding_from_landmarks") => C12_Features(157)
    /\ C12_Case("_calculate_landmark_confidence") => C12_Confidence

\* 468 points at one place off the middle of the frame and off the image
\* plane, half way between the left edge and the middle: the confidence is
\* 0.1 + 0.225
C12_Witness ==
    /\ C12_Case("_calculate_landmark_confidence")
    /\ request.width = 8 /\ request.height = 8
    /\ request.landmarks_3d[1] = [x |-> 2, y |-> 4, z |-> -2]
    /\ result.ret = 325000

\* C13: for every 468-point landmark set more than 128 features are assembled
\* before normalisation, so nothing is padded and the output is the first 128
\* normalised entries; each of them is a banded pairwise distance (the k-th
\* is the distance of the k-th pair in order of i then j), the two angles and
\* the four proportions lie after position 128 and reach the output only
\* through the mean and the standard deviation of the normalisation.
C13_OutputIsDistances ==
    Returned("_generate_embedding_from_landmarks") =>
        LET pts      == PixelLandmarks(request.face_landmarks, request.width, request.height)
            features == features_of(request.face_landmarks, request.width, request.height)
            n        == Len(features)
            mean     == Sum(features, n) \div n
            std      == ISqrt(Sum([k \in 1..n |-> (features[k] - mean) * (features[k] - mean)], n)
                                \div n)
            dist(k)  == LET i == (k - 1) \div 4
                            j == i + 1 + ((k - 1) % 4)
                        IN  Norm(Minus(pts[key_indices[i + 1] + 1],
                                       pts[key_indices[j + 1] + 1]))
        IN  /\ Len(request.face_landmarks) = 468
            /\ n > 128
            /\ n - 6 >= 128
            /\ Len(result.ret) = 128
            /\ \A k \in 1..128 :
                  result.ret[k] = GuardedRatio(Abs(dist(k) - mean), std)
                                     * (IF dist(k) < mean THEN -1 ELSE 1)

\* a spread landmark set: the angles and the proportions are not 0, they
\* stand in the last six of 188 features, and the 128 values returned are
\* not all the same
C13_Witness ==
    /\ Returned("_generate_embedding_from_landmarks")
    /\ request.face_landmarks = Spread(1)
    /\ LET features == features_of(request.face_landmarks, request.width, request.height)
       IN  /\ Len(features) = 188
           /\ \A k \in 183..188 : features[k] > 0
    /\ Len(result.ret) = 128
    /\ Cardinality({result.ret[k] : k \in 1..128}) > 1

(***************************************************************************)
(* Claims about the embedding path, checked under Spec.                    *)
(***************************************************************************)
\* C10: when the face mesh returns no face, extract_landmarks_and_embedding
\* returns the record whose only key is error, with the message
\* 'No face detected'; when it returns n >= 1 faces the result has exactly the
\* keys faces and count, count is n, and the k-th entry of faces is computed
\* from the k-th landmark set alone.
C10_ExtractResult ==
    (pc = "done" /\ request.op = "extract" /\ mesh # Null) =>
        LET faces == mesh.multi_face_landmarks
            n     == Len(faces)
            w     == request.image.width
            h     == request.image.height
        IN  IF n = 0
            THEN result = [error |-> "No face detected"]
            ELSE /\ DOMAIN result = {"faces", "count"}
                 /\ result.count = n
                 /\ Len(result.faces) = n
                 /\ \A k \in 1..n :
                       /\ result.faces[k].landmarks = PixelLandmarks(faces[k], w, h)
                       /\ result.faces[k].landmark_count = Len(faces[k])
                       /\ result.faces[k].embedding =
                             _generate_embedding_from_landmarks(faces[k], w, h)
                       /\ result.faces[k].confidence =
                             _calculate_landmark_confidence(
                                 PixelLandmarks(faces[k], w, h), w, h)

\* two faces with different landmark sets: two different entries
C10_Witness ==
    /\ pc = "done"
    /\ request.op = "extract"
    /\ mesh # Null
    /\ Len(mesh.multi_face_landmarks) = 2
    /\ mesh.multi_face_landmarks[1] # mesh.multi_face_landmarks[2]
    /\ result.count = 2
    /\ result.faces[1].embedding # result.faces[2].embedding

=============================================================================
